---- MODULE Spec2Model ----
(***************************************************************************)
(* Masterblog API (backend/backend_app.py): a Flask service keeping blog   *)
(* posts in a JSON file.  Every handler loads the whole file with          *)
(* get_data, works on its own copy and, for a mutation, writes the whole   *)
(* list back with save_data.                                               *)
(*                                                                         *)
(* Strings are sequences of one-character strings, so that str.strip and   *)
(* datetime.strptime are modelled by what they do to the characters.       *)
(***************************************************************************)
EXTENDS Integers, Sequences, FiniteSets, TLC

VARIABLES
    file,   \* content of storage.json: [kind, posts]
    disk,   \* whether the medium accepts a write: "ok", "denied", "full"
    resp,   \* the last response sent: [op, code, id]
    issued, \* history: every id a post of the collection has been given
    proc,   \* the requests in flight when handlers run side by side
    listed  \* the last answer of a GET: [op, args, code, posts]

vars == <<file, disk, resp, issued, proc, listed>>

(***************************************************************************)
(* Bound of the model: create is explored while the id it assigns is at    *)
(* most MaxId.  Ids in a collection are then in 1..MaxId.                  *)
(***************************************************************************)
MaxId == 3

----------------------------------------------------------------------------
(* Python helpers on strings                                               *)

\* str.strip(): leading and trailing whitespace removed
RECURSIVE lstrip(_)
lstrip(s) == IF s # <<>> /\ Head(s) = " " THEN lstrip(Tail(s)) ELSE s

RECURSIVE rstrip(_)
rstrip(s) ==
    IF s # <<>> /\ s[Len(s)] = " " THEN rstrip(SubSeq(s, 1, Len(s) - 1)) ELSE s

strip(s) == rstrip(lstrip(s))

Digit == {"0", "1", "2", "3", "4", "5", "6", "7", "8", "9"}

DigitVal(c) ==
    CASE c = "0" -> 0 [] c = "1" -> 1 [] c = "2" -> 2 [] c = "3" -> 3
      [] c = "4" -> 4 [] c = "5" -> 5 [] c = "6" -> 6 [] c = "7" -> 7
      [] c = "8" -> 8 [] c = "9" -> 9

\* int() of a string of digits (a leading space, as %d admits, counts as 0)
RECURSIVE IntOf(_)
IntOf(s) ==
    IF s = <<>> THEN 0
    ELSE 10 * IntOf(SubSeq(s, 1, Len(s) - 1))
         + (IF s[Len(s)] \in Digit THEN DigitVal(s[Len(s)]) ELSE 0)

\* the directive patterns of _strptime: %Y, %m, %d
MatchesY(s) == Len(s) = 4 /\ \A i \in 1..4 : s[i] \in Digit

MatchesM(s) ==
    \/ Len(s) = 2 /\ s[1] = "1" /\ s[2] \in {"0", "1", "2"}
    \/ Len(s) = 2 /\ s[1] = "0" /\ s[2] \in Digit \ {"0"}
    \/ Len(s) = 1 /\ s[1] \in Digit \ {"0"}

MatchesD(s) ==
    \/ Len(s) = 2 /\ s[1] = "3" /\ s[2] \in {"0", "1"}
    \/ Len(s) = 2 /\ s[1] \in {"1", "2"} /\ s[2] \in Digit
    \/ Len(s) = 2 /\ s[1] = "0" /\ s[2] \in Digit \ {"0"}
    \/ Len(s) = 1 /\ s[1] \in Digit \ {"0"}
    \/ Len(s) = 2 /\ s[1] = " " /\ s[2] \in Digit \ {"0"}

IsLeap(y) == (y % 4 = 0 /\ y % 100 # 0) \/ y % 400 = 0

DaysInMonth(y, m) ==
    IF m = 2 THEN (IF IsLeap(y) THEN 29 ELSE 28)
    ELSE IF m \in {4, 6, 9, 11} THEN 30 ELSE 31

\* The format is %Y, a dash, %m, a dash, %d, and nothing may be left over.
\* %Y is four characters, so the first dash is the fifth; %m is one or two,
\* so the second dash is the seventh or the eighth: the places j it may have.
Splits(s) ==
    IF Len(s) >= 5 /\ MatchesY(SubSeq(s, 1, 4)) /\ s[5] = "-"
    THEN {j \in {7, 8} :
             /\ j < Len(s)
             /\ s[j] = "-"
             /\ MatchesM(SubSeq(s, 6, j - 1))
             /\ MatchesD(SubSeq(s, j + 1, Len(s)))}
    ELSE {}

\* datetime.strptime(s, "%Y-%m-%d") returns (TRUE) or raises ValueError (FALSE):
\* the string matches the format and names a day that exists
strptime(s) ==
    \E j \in Splits(s) :
        LET y == IntOf(SubSeq(s, 1, 4))
            m == IntOf(SubSeq(s, 6, j - 1))
            d == IntOf(SubSeq(s, j + 1, Len(s)))
        IN  y >= 1 /\ d <= DaysInMonth(y, m)

----------------------------------------------------------------------------
(* Storage: get_data and save_data                                         *)

NoFile == [kind |-> "absent", posts |-> <<>>]

ListFile(data) == [kind |-> "list", posts |-> data]

\* what an interrupted json.dump leaves behind: not valid JSON
TornFile == [kind |-> "badjson", posts |-> <<>>]

\* get_data(): the list in the file, [] when the file is absent or invalid
get_data == IF file.kind = "list" THEN file.posts ELSE <<>>

\* save_data(data): the file afterwards, and whether RuntimeError is raised.
\* open(.., "w") truncates the file before json.dump writes into it.
save_data(data) ==
    CASE disk = "ok"     -> [file |-> ListFile(data), raised |-> FALSE]
      [] disk = "denied" -> [file |-> file,           raised |-> TRUE]
      [] disk = "full"   -> [file |-> TornFile,       raised |-> TRUE]

----------------------------------------------------------------------------
(* Requests                                                                *)

Fields == {"title", "content", "author", "date"}

EmptyDict == <<>>

\* the values a request may carry in each field
RawValues(k) ==
    CASE k = "title"   -> {<<" ">>, <<" ", "a">>}
      [] k = "content" -> {<<"b">>}
      [] k = "author"  -> {<<"c">>}
      [] k = "date"    -> {<<" ", "2", "0", "2", "4", "-", "0", "2", "-", "2", "9">>,
                           <<"2", "0", "2", "3", "-", "0", "2", "-", "2", "9">>,
                           <<"2", "0", "2", "4", "-", "2", "-", "9">>}

AllRaw == UNION {RawValues(k) : k \in Fields}

\* JSON objects with any subset of the four keys
Dicts ==
    UNION {{d \in [S -> AllRaw] : \A k \in S : d[k] \in RawValues(k)} :
           S \in SUBSET Fields}

\* request.get_json(): None, or the JSON object of the body
NoneBody == [is_json |-> FALSE, data |-> EmptyDict]

Bodies == {NoneBody} \cup {[is_json |-> TRUE, data |-> d] : d \in Dicts}

\* the ids a request may name: those the model can assign, and one it cannot
PostIds == 1..(MaxId + 1)

\* dict.get(k, "")
get(d, k) == IF k \in DOMAIN d THEN d[k] ELSE <<>>

----------------------------------------------------------------------------
(* Handlers                                                                *)

RECURSIVE max_id(_)
max_id(posts) ==
    IF posts = <<>> THEN 0
    ELSE LET m == max_id(Tail(posts))
         IN  IF Head(posts).id > m THEN Head(posts).id ELSE m

\* a slip for line 142: the number of posts, plus one
new_id_count(posts) == Len(posts) + 1

\* a slip for line 142: the id of the last post, plus one
new_id_last(posts) == IF posts = <<>> THEN 1 ELSE posts[Len(posts)].id + 1

\* line 142: max((post["id"] for post in posts), default=0) + 1
new_id(posts) == max_id(posts) + 1

\* a slip for lines 162-163 and 186-187: after a loop that found nothing, the
\* loop variable is used, which still names the last post
find_leaked(posts, post_id) ==
    IF \E i \in DOMAIN posts : posts[i].id = post_id
    THEN CHOOSE i \in DOMAIN posts :
            /\ posts[i].id = post_id
            /\ \A j \in 1..(i - 1) : posts[j].id # post_id
    ELSE Len(posts)

\* the first index of posts whose post has this id, 0 when there is none
\* (the for loops of delete_post and update_post)
find(posts, post_id) ==
    IF \E i \in DOMAIN posts : posts[i].id = post_id
    THEN CHOOSE i \in DOMAIN posts :
            /\ posts[i].id = post_id
            /\ \A j \in 1..(i - 1) : posts[j].id # post_id
    ELSE 0

\* a slip for line 164: posts.pop(), the last element is removed
remove_pop(posts, x) == SubSeq(posts, 1, Len(posts) - 1)

\* list.remove(x): the first element equal to x is removed
remove(posts, x) ==
    LET i == CHOOSE i \in DOMAIN posts :
                 posts[i] = x /\ \A j \in 1..(i - 1) : posts[j] # x
    IN  SubSeq(posts, 1, i - 1) \o SubSeq(posts, i + 1, Len(posts))

\* a response: its status code and the id of the post a create returns
Response(op, code, id) == [op |-> op, code |-> code, id |-> id]

\* a handler returning without a save: the file is as it was
returned(op, code) == [file |-> file, resp |-> Response(op, code, 0)]

\* save_data in a handler's try block, then the return: 500 when it raises
saved(op, data, code, id) ==
    LET w == save_data(data)
    IN  [file |-> w.file,
         resp |-> IF w.raised THEN Response(op, 500, 0) ELSE Response(op, code, id)]

\* POST /api/posts: the file and the response it ends with
run_add_post(body) ==
    LET posts    == get_data
        new_post == body.data
        title    == strip(get(new_post, "title"))
        content  == strip(get(new_post, "content"))
        author   == strip(get(new_post, "author"))
        date     == strip(get(new_post, "date"))
        created  == [id |-> new_id(posts), title |-> title, content |-> content,
                     author |-> author, date |-> date]
    IN  IF ~body.is_json \/ new_post = EmptyDict THEN returned("create", 400)
        ELSE IF title = <<>> THEN returned("create", 400)
        ELSE IF content = <<>> THEN returned("create", 400)
        ELSE IF author = <<>> THEN returned("create", 400)
        ELSE IF date = <<>> THEN returned("create", 400)
        ELSE IF ~strptime(date) THEN returned("create", 400)
        ELSE saved("create", Append(posts, created), 201, created.id)

add_post(body) ==
    LET out == run_add_post(body)
    IN  /\ out.resp.id <= MaxId
        /\ file' = out.file
        /\ resp' = out.resp
        /\ issued' = IF out.resp.code = 201 THEN issued \cup {out.resp.id} ELSE issued
        /\ UNCHANGED <<disk, proc, listed>>

\* DELETE /api/posts/<post_id>: the file and the response it ends with
run_delete_post(post_id) ==
    LET posts == get_data
        i     == find(posts, post_id)
    IN  IF i # 0
        THEN saved("delete", remove(posts, posts[i]), 200, 0)
        ELSE returned("delete", 404)

delete_post(post_id) ==
    LET out == run_delete_post(post_id)
    IN  /\ file' = out.file
        /\ resp' = out.resp
        /\ UNCHANGED <<disk, issued, proc, listed>>

\* a slip for lines 188-193: new_data.get(key, "") assigned for every key
assign_text_get(post, new_data) ==
    [post EXCEPT !.title = get(new_data, "title"),
                 !.content = get(new_data, "content"),
                 !.author = get(new_data, "author")]

\* lines 188-193: the supplied title, content and author are assigned as given
assign_text(post, new_data) ==
    [post EXCEPT
        !.title   = IF "title" \in DOMAIN new_data THEN new_data["title"] ELSE @,
        !.content = IF "content" \in DOMAIN new_data THEN new_data["content"] ELSE @,
        !.author  = IF "author" \in DOMAIN new_data THEN new_data["author"] ELSE @]

\* PUT /api/posts/<post_id>: the file and the response it ends with
run_update_post(post_id, body) ==
    LET posts    == get_data
        new_data == IF ~body.is_json THEN EmptyDict ELSE body.data
        i        == find(posts, post_id)
    IN  IF i = 0 THEN returned("update", 404)
        ELSE LET post == assign_text(posts[i], new_data)
             IN  IF "date" \in DOMAIN new_data
                 THEN LET new_date == strip(new_data["date"])
                      IN  IF ~strptime(new_date)
                          THEN returned("update", 400)
                          ELSE saved("update",
                                     [posts EXCEPT
                                         ![i] = [post EXCEPT !.date = new_date]],
                                     200, 0)
                 ELSE saved("update", [posts EXCEPT ![i] = post], 200, 0)

update_post(post_id, body) ==
    LET out == run_update_post(post_id, body)
    IN  /\ file' = out.file
        /\ resp' = out.resp
        /\ UNCHANGED <<disk, issued, proc, listed>>

----------------------------------------------------------------------------
(* Specifications                                                          *)

NoResponse == [op |-> "none", code |-> 0, id |-> 0]

\* the threads of the server that handle requests side by side
Workers == {"w1", "w2", "w3"}

Idle == [pc |-> "idle"]

\* no request is in flight
NoRequests == [w \in Workers |-> Idle]

\* no GET has been answered yet
NoListing == [op |-> "none", args |-> <<>>, code |-> 0, posts |-> <<>>]

\* first run: storage.json does not exist yet, the medium is writable
Init ==
    /\ file = NoFile
    /\ disk = "ok"
    /\ resp = NoResponse
    /\ issued = {}
    /\ proc = NoRequests
    /\ listed = NoListing

Next ==
    \/ \E body \in Bodies : add_post(body)
    \/ \E post_id \in PostIds : delete_post(post_id)
    \/ \E post_id \in PostIds, body \in Bodies : update_post(post_id, body)

\* requests handled one at a time on a medium that accepts every write
Spec == Init /\ [][Next]_vars

\* a post as a create with these fields would have stored it
SeedPost(id) ==
    [id |-> id, title |-> <<"a">>, content |-> <<"b">>, author |-> <<"c">>,
     date |-> <<"2", "0", "2", "4", "-", "0", "2", "-", "2", "9">>]

\* storage.json as found at start-up: absent, an empty list, or a list whose
\* ids are distinct and not in ascending order
Seeds == {<<>>, <<SeedPost(2), SeedPost(1)>>}

InitSeeded ==
    /\ file \in {NoFile} \cup {ListFile(s) : s \in Seeds}
    /\ disk = "ok"
    /\ resp = NoResponse
    /\ issued = {get_data[i].id : i \in DOMAIN get_data}
    /\ proc = NoRequests
    /\ listed = NoListing

\* the same service started on a storage.json that already exists
SpecSeeded == InitSeeded /\ [][Next]_vars

----------------------------------------------------------------------------
(* Handlers running side by side.  The server of app.run handles each      *)
(* request in a thread of its own; a handler reads the file into its own   *)
(* list (get_data), works on that list, and writes it back (save_data).    *)

\* the handler's work on the list it has loaded, up to the save: the code it
\* returns without saving, or the list it is about to save
returns(code) == [save |-> FALSE, code |-> code, data |-> <<>>]

saves(code, data) == [save |-> TRUE, code |-> code, data |-> data]

\* add_post, lines 117-150, on the loaded list
add_post_work(posts, body) ==
    LET new_post == body.data
        title    == strip(get(new_post, "title"))
        content  == strip(get(new_post, "content"))
        author   == strip(get(new_post, "author"))
        date     == strip(get(new_post, "date"))
        created  == [id |-> new_id(posts), title |-> title, content |-> content,
                     author |-> author, date |-> date]
    IN  IF ~body.is_json \/ new_post = EmptyDict THEN returns(400)
        ELSE IF title = <<>> \/ content = <<>> \/ author = <<>> \/ date = <<>>
        THEN returns(400)
        ELSE IF ~strptime(date) THEN returns(400)
        ELSE saves(201, Append(posts, created))

\* delete_post, lines 162-164 and 171, on the loaded list
delete_post_work(posts, post_id) ==
    LET i == find(posts, post_id)
    IN  IF i # 0 THEN saves(200, remove(posts, posts[i])) ELSE returns(404)

\* update_post, lines 182-200 and 207, on the loaded list
update_post_work(posts, post_id, body) ==
    LET new_data == IF ~body.is_json THEN EmptyDict ELSE body.data
        i        == find(posts, post_id)
    IN  IF i = 0 THEN returns(404)
        ELSE LET post == assign_text(posts[i], new_data)
             IN  IF "date" \in DOMAIN new_data
                 THEN LET new_date == strip(new_data["date"])
                      IN  IF ~strptime(new_date) THEN returns(400)
                          ELSE saves(200, [posts EXCEPT
                                              ![i] = [post EXCEPT !.date = new_date]])
                 ELSE saves(200, [posts EXCEPT ![i] = post])

work(req, posts) ==
    CASE req.op = "create" -> add_post_work(posts, req.body)
      [] req.op = "delete" -> delete_post_work(posts, req.post_id)
      [] req.op = "update" -> update_post_work(posts, req.post_id, req.body)

\* a create body with the four fields, padded as a client may send them
FullBody ==
    [is_json |-> TRUE,
     data |-> [title   |-> <<" ", "a">>,
               content |-> <<"b">>,
               author  |-> <<"c">>,
               date    |-> <<" ", "2", "0", "2", "4", "-", "0", "2", "-", "2", "9">>]]

\* an update body that changes the title
TitleBody == [is_json |-> TRUE, data |-> [title |-> <<" ", "a">>]]

\* the requests that meet in the side-by-side runs
Requests ==
    {[op |-> "create", post_id |-> 0, body |-> b] : b \in {NoneBody, FullBody}}
    \cup {[op |-> "delete", post_id |-> i, body |-> NoneBody] : i \in PostIds}
    \cup {[op |-> "update", post_id |-> i, body |-> TitleBody] : i \in PostIds}

\* the workers that have written the file
Savers == {v \in Workers : proc[v].pc = "done" /\ proc[v].rank > 0}

\* the first statement of a handler: posts = get_data().  during is history:
\* the handlers whose write of the file was under way at this load.
load(w, req) ==
    /\ proc[w].pc = "idle"
    /\ proc' = [proc EXCEPT ![w] =
                   [pc |-> "loaded", req |-> req, posts |-> get_data,
                    during |-> {v \in Workers : proc[v].pc = "writing"}]]
    /\ UNCHANGED <<file, disk, resp, issued, listed>>

\* a handler that returns before any save (400, 404)
answer(w) ==
    /\ proc[w].pc = "loaded"
    /\ LET plan == work(proc[w].req, proc[w].posts)
       IN  /\ ~plan.save
           /\ proc' = [proc EXCEPT ![w] = [pc |-> "done", req |-> @.req,
                                           posts |-> @.posts, code |-> plan.code,
                                           rank |-> 0, met |-> {}]]
    /\ UNCHANGED <<file, disk, resp, issued, listed>>

\* a slip for save: the handler reads the file again and redoes its work on
\* what it finds, as if load, work and save were one step
save_fresh(w) ==
    /\ proc[w].pc = "loaded"
    /\ LET plan == work(proc[w].req, get_data)
           out  == save_data(plan.data)
       IN  /\ work(proc[w].req, proc[w].posts).save
           /\ file' = IF plan.save THEN out.file ELSE file
           /\ proc' = [proc EXCEPT ![w] =
                          [pc |-> "done", req |-> @.req, posts |-> @.posts,
                           code |-> IF out.raised THEN 500 ELSE plan.code,
                           rank |-> Cardinality(Savers) + 1,
                           met |-> {v \in Workers \ {w} : proc[v].pc = "loaded"}]]
    /\ UNCHANGED <<disk, resp, issued, listed>>

\* a slip for save: the new posts of the handler's list are added to the
\* list now in the file
save_merged(w) ==
    /\ proc[w].pc = "loaded"
    /\ LET plan == work(proc[w].req, proc[w].posts)
           news == SelectSeq(plan.data,
                             LAMBDA p : \A i \in DOMAIN proc[w].posts :
                                            proc[w].posts[i].id # p.id)
           out  == save_data(IF news = <<>> THEN plan.data ELSE get_data \o news)
       IN  /\ plan.save
           /\ file' = out.file
           /\ proc' = [proc EXCEPT ![w] =
                          [pc |-> "done", req |-> @.req, posts |-> @.posts,
                           code |-> IF out.raised THEN 500 ELSE plan.code,
                           rank |-> Cardinality(Savers) + 1,
                           met |-> {v \in Workers \ {w} : proc[v].pc = "loaded"}]]
    /\ UNCHANGED <<disk, resp, issued, listed>>

\* the handler's work and its save_data(posts), the write taken as one step.
\* rank and met are history: the place of this save among the saves, and
\* the handlers that had loaded and not yet finished when it happened.
save(w) ==
    /\ proc[w].pc = "loaded"
    /\ LET plan == work(proc[w].req, proc[w].posts)
           out  == save_data(plan.data)
       IN  /\ plan.save
           /\ file' = out.file
           /\ proc' = [proc EXCEPT ![w] =
                          [pc |-> "done", req |-> @.req, posts |-> @.posts,
                           code |-> IF out.raised THEN 500 ELSE plan.code,
                           rank |-> Cardinality(Savers) + 1,
                           met |-> {v \in Workers \ {w} : proc[v].pc = "loaded"}]]
    /\ UNCHANGED <<disk, resp, issued, listed>>

\* save_data, line 47: open(DATA_FILE, "w") empties the file.  before is
\* history: the collection the file held when it was opened.
open_file(w) ==
    /\ proc[w].pc = "loaded"
    /\ LET plan == work(proc[w].req, proc[w].posts)
       IN  /\ plan.save
           /\ proc' = [proc EXCEPT ![w] =
                          [pc |-> "writing", req |-> @.req, posts |-> @.posts,
                           data |-> plan.data, code |-> plan.code,
                           before |-> get_data]]
    /\ file' = TornFile
    /\ UNCHANGED <<disk, resp, issued, listed>>

\* save_data, line 48 and the end of the with block: json.dump writes the
\* list and the file is closed
dump(w) ==
    /\ proc[w].pc = "writing"
    /\ file' = ListFile(proc[w].data)
    /\ proc' = [proc EXCEPT ![w] =
                   [pc |-> "done", req |-> @.req, posts |-> @.posts,
                    code |-> @.code, rank |-> Cardinality(Savers) + 1,
                    met |-> {}]]
    /\ UNCHANGED <<disk, resp, issued, listed>>

\* storage.json when the requests arrive
RaceSeeds == {<<>>, <<SeedPost(1)>>, <<SeedPost(1), SeedPost(2)>>,
              <<SeedPost(2), SeedPost(1)>>}

\* resp and issued belong to the runs that handle one request at a time;
\* here every worker keeps its own answer in proc
InitRace ==
    /\ file \in {NoFile} \cup {ListFile(s) : s \in RaceSeeds}
    /\ disk = "ok"
    /\ resp = NoResponse
    /\ issued = {}
    /\ proc = NoRequests
    /\ listed = NoListing

NextRace ==
    \/ \E w \in Workers, req \in Requests : load(w, req)
    \/ \E w \in Workers : answer(w)
    \/ \E w \in Workers : save(w)

\* requests handled side by side, one for each worker, every load and every
\* save one step
SpecRace == InitRace /\ [][NextRace]_vars

NextTorn ==
    \/ \E w \in Workers, req \in Requests : load(w, req)
    \/ \E w \in Workers : answer(w)
    \/ \E w \in Workers : open_file(w)
    \/ \E w \in Workers : dump(w)

\* requests handled side by side, the write of the file in its two steps
SpecTorn == InitRace /\ [][NextTorn]_vars

----------------------------------------------------------------------------
(* A medium that may refuse a write                                        *)

\* the outcomes of a write that except OSError (line 49) stands for: the
\* open is refused and the file stays ("denied": permissions), or the open
\* has emptied the file and the write into it fails ("full": capacity)
DiskStates == {"ok", "denied", "full"}

\* the medium changes between two requests
set_disk(d) ==
    /\ disk # d
    /\ disk' = d
    /\ UNCHANGED <<file, resp, issued, proc, listed>>

NextFaulty ==
    \/ Next
    \/ \E d \in DiskStates : set_disk(d)

\* requests handled one at a time on a medium that may refuse a write
SpecFaulty == Init /\ [][NextFaulty]_vars

----------------------------------------------------------------------------
(* Queries: get_posts and search_posts                                     *)

\* str.lower() on the characters of the model
lower(s) ==
    [i \in DOMAIN s |->
        CASE s[i] = "A" -> "a"
          [] s[i] = "B" -> "b"
          [] s[i] = "C" -> "c"
          [] OTHER -> s[i]]

\* the code point of a character: Python orders strings by code points
ord(c) ==
    CASE c = " " -> 32
      [] c = "-" -> 45
      [] c \in Digit -> 48 + DigitVal(c)
      [] c = "A" -> 65
      [] c = "B" -> 66
      [] c = "C" -> 67
      [] c = "a" -> 97
      [] c = "b" -> 98
      [] c = "c" -> 99
      [] c = "x" -> 120

\* a < b for two keys, each a sequence of numbers: the order of str (code
\* points) and of datetime (year, month, day)
key_less(a, b) ==
    \E i \in 1..(Len(a) + 1) :
        /\ i <= Len(b)
        /\ \A j \in 1..(i - 1) : a[j] = b[j]
        /\ i = Len(a) + 1 \/ a[i] < b[i]

\* the datetime that strptime(s, "%Y-%m-%d") returns, as year, month, day
parsed(s) ==
    LET j == CHOOSE j \in Splits(s) : TRUE
    IN  <<IntOf(SubSeq(s, 1, 4)), IntOf(SubSeq(s, 6, j - 1)),
          IntOf(SubSeq(s, j + 1, Len(s)))>>

\* lines 96-103: the sort key of a post
key_func(post, sort) ==
    IF sort = "date" THEN parsed(post["date"])
    ELSE LET s == lower(post[sort]) IN [i \in DOMAIN s |-> ord(s[i])]

\* whether key_func raises on this element: no such key (KeyError), or a
\* date that strptime refuses (ValueError)
key_raises(post, sort) ==
    \/ sort \notin DOMAIN post
    \/ sort = "date" /\ ~strptime(post["date"])

RECURSIVE reversed(_)
reversed(s) == IF s = <<>> THEN <<>> ELSE Append(reversed(Tail(s)), Head(s))

\* one step of the insertion sort: x goes behind every element that is not
\* greater than it
RECURSIVE insort(_, _, _)
insort(done, x, sort) ==
    IF done = <<>> THEN <<x>>
    ELSE IF key_less(key_func(x, sort), key_func(Head(done), sort))
         THEN <<x>> \o done
         ELSE <<Head(done)>> \o insort(Tail(done), x, sort)

RECURSIVE stable_sort(_, _)
stable_sort(posts, sort) ==
    IF posts = <<>> THEN <<>>
    ELSE insort(stable_sort(SubSeq(posts, 1, Len(posts) - 1), sort),
                posts[Len(posts)], sort)

\* a slip for line 105: sorted(...) and then a reversal of the result
sorted_then_reversed(posts, sort, reverse) ==
    IF reverse THEN reversed(stable_sort(posts, sort)) ELSE stable_sort(posts, sort)

\* line 105: sorted(posts, key=key_func, reverse=reverse).  The sort is
\* stable; with reverse the list is reversed, sorted and reversed again.
sorted(posts, sort, reverse) ==
    IF reverse THEN reversed(stable_sort(reversed(posts), sort))
    ELSE stable_sort(posts, sort)

\* the query strings of GET /api/posts
SortValues == {"title", "content", "author", "date", "bogus"}

DirectionValues == {"asc", "desc", "sideways"}

ListArgs ==
    {a \in UNION {[S -> SortValues \cup DirectionValues] : S \in SUBSET {"sort", "direction"}} :
        /\ "sort" \in DOMAIN a => a["sort"] \in SortValues
        /\ "direction" \in DOMAIN a => a["direction"] \in DirectionValues}

\* the answer of a GET: jsonify(posts) with its code, or an error
Listing(code, posts) == [code |-> code, posts |-> posts]

\* GET /api/posts: the answer.  An exception no handler catches is Flask's
\* 500.
run_get_posts(args) ==
    LET posts     == get_data
        direction == IF "direction" \in DOMAIN args THEN args["direction"] ELSE "asc"
    IN  IF "sort" \notin DOMAIN args THEN Listing(200, posts)
        ELSE IF args["sort"] \notin {"title", "content", "author", "date"}
        THEN Listing(400, <<>>)
        ELSE IF direction \notin {"asc", "desc"} THEN Listing(400, <<>>)
        ELSE IF \E i \in DOMAIN posts : key_raises(posts[i], args["sort"])
        THEN Listing(500, <<>>)
        ELSE Listing(200, sorted(posts, args["sort"], direction = "desc"))

\* a slip for lines 105-106: the loaded list is sorted in place and saved
get_posts_saving(args) ==
    LET out == run_get_posts(args)
    IN  /\ listed' = [op |-> "list", args |-> args, code |-> out.code,
                      posts |-> out.posts]
        /\ file' = IF out.code = 200 /\ file.kind = "list"
                   THEN ListFile(out.posts) ELSE file
        /\ UNCHANGED <<disk, resp, issued, proc>>

get_posts(args) ==
    LET out == run_get_posts(args)
    IN  /\ listed' = [op |-> "list", args |-> args, code |-> out.code,
                      posts |-> out.posts]
        /\ UNCHANGED <<file, disk, resp, issued, proc>>

\* s in t for two strings
contains(t, s) ==
    \E i \in 0..(Len(t) - Len(s)) : SubSeq(t, i + 1, i + Len(s)) = s

\* the values the query string of a search may carry in each field
FilterValues(k) ==
    CASE k = "title"   -> {<<>>, <<"A">>}
      [] k = "content" -> {<<"b">>}
      [] k = "author"  -> {<<"C">>}
      [] k = "date"    -> {<<>>, <<"2", "0", "2", "4", "-", "0", "2", "-", "2", "9">>}

SearchArgs ==
    UNION {{a \in [S -> UNION {FilterValues(k) : k \in Fields}] :
               \A k \in S : a[k] \in FilterValues(k)} :
           S \in SUBSET Fields}

\* request.args.get(k): the value, None when the key is absent; both None
\* and "" are false in `if title:`
given(args, k) == k \in DOMAIN args /\ args[k] # <<>>

\* a slip for line 231: the whole list when there is no filter
search_all(posts) == posts

\* line 231: jsonify([]) when no filter is given
search_none(posts) == <<>>

\* a slip for line 247: any(conditions)
matches_any(post, args) ==
    \/ given(args, "title") /\ contains(lower(post["title"]), lower(args["title"]))
    \/ given(args, "content") /\ contains(lower(post["content"]), lower(args["content"]))
    \/ given(args, "author") /\ contains(lower(post["author"]), lower(args["author"]))
    \/ given(args, "date") /\ args["date"] = post["date"]

\* lines 235-247: conditions and all(conditions), a condition for every
\* filter that is given
matches(post, args) ==
    /\ given(args, "title") => contains(lower(post["title"]), lower(args["title"]))
    /\ given(args, "content") => contains(lower(post["content"]), lower(args["content"]))
    /\ given(args, "author") => contains(lower(post["author"]), lower(args["author"]))
    /\ given(args, "date") => args["date"] = post["date"]

\* GET /api/posts/search: the answer
run_search_posts(args) ==
    LET posts == get_data
    IN  IF ~\E k \in Fields : given(args, k) THEN Listing(200, search_none(posts))
        ELSE IF \E i \in DOMAIN posts, k \in Fields :
                    given(args, k) /\ k \notin DOMAIN posts[i]
        THEN Listing(500, <<>>)
        ELSE Listing(200, SelectSeq(posts, LAMBDA post : matches(post, args)))

search_posts(args) ==
    LET out == run_search_posts(args)
    IN  /\ listed' = [op |-> "search", args |-> args, code |-> out.code,
                      posts |-> out.posts]
        /\ UNCHANGED <<file, disk, resp, issued, proc>>

NextQuery ==
    \/ \E args \in ListArgs : get_posts(args)
    \/ \E args \in SearchArgs : search_posts(args)

\* a post as create and update may have left it
QueryPost(id, title, date) ==
    [id |-> id, title |-> title, content |-> <<"b">>, author |-> <<"c">>,
     date |-> date]

Feb29 == <<"2", "0", "2", "4", "-", "0", "2", "-", "2", "9">>

Feb9 == <<"2", "0", "2", "4", "-", "2", "-", "9">>

\* collections to query: titles that differ in case only, dates whose order
\* as strings is not their order as dates
QuerySeeds ==
    {<<>>,
     <<QueryPost(1, <<"b">>, Feb29), QueryPost(2, <<"A">>, Feb9),
       QueryPost(3, <<"a">>, Feb29)>>,
     <<QueryPost(1, <<"a">>, Feb9), QueryPost(2, <<"B", "a">>, Feb29),
       QueryPost(3, <<"A">>, Feb29)>>,
     <<QueryPost(2, <<"a">>, Feb29), QueryPost(3, <<"a">>, Feb9),
       QueryPost(4, <<"A">>, Feb29), QueryPost(5, <<" ">>, Feb29)>>}

InitQuery ==
    /\ file \in {NoFile} \cup {ListFile(s) : s \in QuerySeeds}
    /\ disk = "ok"
    /\ resp = NoResponse
    /\ issued = {}
    /\ proc = NoRequests
    /\ listed = NoListing

\* clients that only read
SpecQuery == InitQuery /\ [][NextQuery]_vars

\* a JSON object that is no post
Junk == [junk |-> <<"x">>]

\* storage.json as the service may find it: absent, not JSON, JSON that is no
\* list, a list with elements that are no posts, a list of posts
StoredFiles ==
    {NoFile, TornFile,
     [kind |-> "notlist", posts |-> <<>>],
     ListFile(<<Junk>>),
     ListFile(<<SeedPost(1), Junk>>),
     ListFile(<<>>),
     ListFile(<<SeedPost(2), SeedPost(1)>>)}

InitStored ==
    /\ file \in StoredFiles
    /\ disk = "ok"
    /\ resp = NoResponse
    /\ issued = {}
    /\ proc = NoRequests
    /\ listed = NoListing

\* clients that only read, whatever the file holds
SpecStored == InitStored /\ [][NextQuery]_vars

----------------------------------------------------------------------------
(* Properties.  They are stated on the persisted collection, the list      *)
(* that a load returns, and in terms defined here, not by the handlers.    *)

Collection == get_data

IdsOf(posts) == {posts[i].id : i \in DOMAIN posts}

MaxOf(S) == IF S = {} THEN 0 ELSE CHOOSE m \in S : \A x \in S : x <= m

IsBlank(s) == \A i \in DOMAIN s : s[i] = " "

\* t is s without its leading and trailing spaces
IsTrimOf(t, s) ==
    /\ t = <<>> \/ (t[1] # " " /\ t[Len(t)] # " ")
    /\ \E i \in 0..Len(s) :
          /\ i + Len(t) <= Len(s)
          /\ t = SubSeq(s, i + 1, i + Len(t))
          /\ IsBlank(SubSeq(s, 1, i))
          /\ IsBlank(SubSeq(s, i + Len(t) + 1, Len(s)))

Trimmed(s) ==
    CHOOSE t \in {SubSeq(s, i, j) : i \in 1..(Len(s) + 1), j \in 0..Len(s)} :
        IsTrimOf(t, s)

\* YYYY-MM-DD: four digits, dash, two digits, dash, two digits, naming a day
\* of the calendar
IsCalendarDate(s) ==
    /\ Len(s) = 10
    /\ \A i \in {1, 2, 3, 4, 6, 7, 9, 10} : s[i] \in Digit
    /\ s[5] = "-" /\ s[8] = "-"
    /\ LET y == 1000 * DigitVal(s[1]) + 100 * DigitVal(s[2])
                + 10 * DigitVal(s[3]) + DigitVal(s[4])
           m == 10 * DigitVal(s[6]) + DigitVal(s[7])
           d == 10 * DigitVal(s[9]) + DigitVal(s[10])
       IN  /\ y >= 1
           /\ m \in 1..12
           /\ d >= 1
           /\ d <= (IF m = 2
                    THEN (IF y % 400 = 0 \/ (y % 4 = 0 /\ y % 100 # 0) THEN 29 ELSE 28)
                    ELSE IF m \in {4, 6, 9, 11} THEN 30 ELSE 31)

Created == resp.op = "create" /\ resp.code = 201

\* C1: no two posts of the persisted collection share an id, whatever
\* creates, updates and deletes have run, from any start with distinct ids.
C1_UniqueIds ==
    \A i, j \in DOMAIN Collection :
        i # j => Collection[i].id # Collection[j].id

\* a create has succeeded after a delete, beside a post that stayed
C1_Witness ==
    /\ Created
    /\ Len(Collection) >= 2
    /\ Cardinality(issued) > Len(Collection)

\* C2: a successful create never assigns an id that an earlier post was
\* given, deleted or not.
C2_NeverReused == [][Created' => resp'.id \notin issued]_vars

\* the create inputs the specification calls valid
ValidCreateBodies ==
    {b \in Bodies :
        /\ b.is_json
        /\ DOMAIN b.data = Fields
        /\ \A k \in {"title", "content", "author"} : ~IsBlank(b.data[k])
        /\ IsCalendarDate(Trimmed(b.data["date"]))}

ExpectedPost(b, posts) ==
    [id      |-> MaxOf(IdsOf(posts)) + 1,
     title   |-> Trimmed(b.data["title"]),
     content |-> Trimmed(b.data["content"]),
     author  |-> Trimmed(b.data["author"]),
     date    |-> Trimmed(b.data["date"])]

\* the list a load returns from a file
Loaded(f) == IF f.kind = "list" THEN f.posts ELSE <<>>

\* C3: a create with valid input appends exactly one post, with the trimmed
\* fields and the id max(existing ids, 0) + 1, and leaves the earlier posts
\* and their order as they were.
C3_CreateAppends ==
    \A b \in ValidCreateBodies :
        LET out == run_add_post(b)
        IN  /\ out.resp.code = 201
            /\ Loaded(out.file) = Append(Collection, ExpectedPost(b, Collection))

\* a post has been appended to a collection whose last id is not its largest
C3_Witness ==
    /\ Created
    /\ Len(Collection) = 3
    /\ Collection[1].id > Collection[2].id
    /\ Collection[3].id = resp.id
    /\ Collection[3].title = <<"a">>

\* the keys of the JSON object an update is given
Keys(b) == IF b.is_json THEN DOMAIN b.data ELSE {}

Updated == resp.op = "update" /\ resp.code = 200

\* C4: a successful update changes only the supplied fields of the post with
\* that id; ids, positions, the other fields and the other posts stay, and an
\* update with no fields leaves the whole collection as it was.
C4_UpdateFrame ==
    \A post_id \in IdsOf(Collection), b \in Bodies :
        LET out   == run_update_post(post_id, b)
            after == Loaded(out.file)
        IN  out.resp.code = 200 =>
                /\ Len(after) = Len(Collection)
                /\ \A j \in DOMAIN Collection :
                      /\ after[j].id = Collection[j].id
                      /\ Collection[j].id # post_id => after[j] = Collection[j]
                      /\ \A k \in Fields \ Keys(b) : after[j][k] = Collection[j][k]
                /\ Keys(b) = {} => after = Collection

\* an update has succeeded on one of two posts whose fields now differ
C4_Witness ==
    /\ Updated
    /\ Len(Collection) = 2
    /\ Collection[1].title # Collection[2].title
    /\ Collection[1].content = Collection[2].content

\* the updates whose date, once trimmed, is no calendar date
InvalidDateBodies ==
    {b \in Bodies : "date" \in Keys(b) /\ ~IsCalendarDate(Trimmed(b.data["date"]))}

\* C5: an update of an existing post with an invalid date is rejected with a
\* validation error and leaves the persisted collection as it was.
C5_InvalidDateRejected ==
    [][\A post_id \in IdsOf(Collection), b \in InvalidDateBodies :
          update_post(post_id, b) =>
              resp'.code = 400 /\ Collection' = Collection]_vars

\* C6: every post of the persisted collection has a title, a content and an
\* author that are not empty once trimmed.
C6_TextNonEmpty ==
    \A i \in DOMAIN Collection :
        /\ ~IsBlank(Collection[i].title)
        /\ ~IsBlank(Collection[i].content)
        /\ ~IsBlank(Collection[i].author)

\* C7: every post of the persisted collection has a date that is a calendar
\* date written YYYY-MM-DD.
C7_DatesValid == \A i \in DOMAIN Collection : IsCalendarDate(Collection[i].date)

Deleted == resp.op = "delete" /\ resp.code = 200

\* C8: deleting an id of the collection removes exactly the post with that
\* id; the other posts stay, unchanged and in their order.
C8_DeleteRemoves ==
    \A post_id \in IdsOf(Collection) :
        LET out   == run_delete_post(post_id)
            after == Loaded(out.file)
        IN  /\ out.resp.code = 200
            /\ post_id \notin IdsOf(after)
            /\ Len(after) = Len(Collection) - 1
            /\ after = SelectSeq(Collection, LAMBDA post : post.id # post_id)

\* the middle one of three posts has been deleted
C8_Witness ==
    /\ Deleted
    /\ Len(Collection) = 2
    /\ Collection[1].id = 1
    /\ Collection[2].id = 3

\* C9: delete and update of an id that is not in the collection answer
\* NotFound (404) and leave the file as it was, nothing being saved.
C9_NotFound ==
    \A post_id \in PostIds \ IdsOf(Collection) :
        /\ LET out == run_delete_post(post_id)
           IN  out.resp.code = 404 /\ out.file = file
        /\ \A b \in Bodies :
              LET out == run_update_post(post_id, b)
              IN  out.resp.code = 404 /\ out.file = file

\* an id that is absent has been asked for while the collection holds posts
C9_Witness ==
    /\ resp.op \in {"delete", "update"}
    /\ resp.code = 404
    /\ Collection # <<>>

\* C10: a create whose input is not valid (a field missing or empty once
\* trimmed, or a date that is no calendar date) answers with a validation
\* error and leaves the file as it was.
C10_InvalidCreateRejected ==
    [][\A b \in Bodies \ ValidCreateBodies :
          add_post(b) => resp'.code = 400 /\ file' = file]_vars

\* C11: while a save is in progress, a load returns the whole collection of
\* before the save or the whole collection being saved, never an empty or
\* partial one.
C11_SaveAtomic ==
    \A w \in Workers, v \in Workers :
        /\ proc[w].pc = "writing"
        /\ Savers = {}
        /\ proc[v].pc = "loaded"
        /\ proc[v].during = {w}
        => proc[v].posts \in {proc[w].before, proc[w].data}

\* C12: an operation whose save fails answers with a storage error (500), and
\* a load after it returns the collection as it was before the operation.
C12_FailedSaveKeeps == [][resp'.code = 500 => Collection' = Collection]_vars

\* a record with the keys of a post
IsPostLike(e) == {"id"} \cup Fields \subseteq DOMAIN e

\* a file that holds a sequence of post-like records
WellFormed(f) == f.kind = "list" /\ \A i \in DOMAIN f.posts : IsPostLike(f.posts[i])

\* a GET /api/posts without sort has answered with the list it loaded
ListedAsLoaded == listed.op = "list" /\ "sort" \notin DOMAIN listed.args

\* C13: a load returns the empty collection when the file is absent, is not
\* JSON, is not a list, or is a list with elements that are no posts.
C13_LoadDegrades ==
    ~WellFormed(file) /\ ListedAsLoaded =>
        listed.code = 200 /\ listed.posts = <<>> /\ Collection = <<>>

\* C14: lists, sorted or not, and searches leave the file as it is, and a
\* list without sort returns the stored collection in its stored order.
C14_QueriesReadOnly ==
    [][/\ file' = file
       /\ ListedAsLoaded' => listed'.posts = Collection]_vars

\* a list without sort has returned three posts that are not in the order of
\* their titles
C14_Witness ==
    /\ ListedAsLoaded
    /\ listed.code = 200
    /\ Len(listed.posts) = 3
    /\ listed.posts[1].title = <<"b">>
    /\ listed.posts[2].title = <<"A">>

\* two characters that are the same letter, whatever their case
SameLetter(c, d) ==
    \/ c = d
    \/ {c, d} \in {{"A", "a"}, {"B", "b"}, {"C", "c"}}

\* s occurs in t, case ignored
OccursIn(s, t) ==
    \E i \in 0..(Len(t) - Len(s)) : \A j \in 1..Len(s) : SameLetter(s[j], t[i + j])

\* a post satisfies the filter k with value v
Satisfies(post, k, v) == IF k = "date" THEN post[k] = v ELSE OccursIn(v, post[k])

\* the posts of the collection, in stored order, that satisfy every filter in K
Selected(args, K) ==
    SelectSeq(Collection, LAMBDA post : \A k \in K : Satisfies(post, k, args[k]))

\* the filters of a query that carry a value
NonEmpty(args) == {k \in DOMAIN args : args[k] # <<>>}

Searched == listed.op = "search" /\ listed.code = 200

\* C15 as stated: a search with one or more filters returns, in stored order,
\* exactly the posts that satisfy every filter of the query (substring, case
\* ignored, for title, content and author; equality for date).
C15_Conjunctive ==
    listed.op = "search" /\ DOMAIN listed.args # {} =>
        /\ listed.code = 200
        /\ listed.posts = Selected(listed.args, DOMAIN listed.args)

\* C15 amended: a filter whose value is empty counts as absent; a search
\* with one or more filters that carry a value returns, in stored order,
\* exactly the posts that satisfy every such filter.
C15_ConjunctiveNonEmpty ==
    listed.op = "search" /\ NonEmpty(listed.args) # {} =>
        /\ listed.code = 200
        /\ listed.posts = Selected(listed.args, NonEmpty(listed.args))

\* a search by title and date has returned one of three posts, where another
\* post has the title and a third has the date
C15_Witness ==
    /\ Searched
    /\ NonEmpty(listed.args) = {"title", "date"}
    /\ Len(Collection) = 3
    /\ Len(listed.posts) = 1
    /\ \E i \in DOMAIN Collection :
          /\ Satisfies(Collection[i], "title", listed.args["title"])
          /\ ~Satisfies(Collection[i], "date", listed.args["date"])
    /\ \E i \in DOMAIN Collection :
          /\ ~Satisfies(Collection[i], "title", listed.args["title"])
          /\ Satisfies(Collection[i], "date", listed.args["date"])

\* C16: a search without filters returns the empty sequence, whatever the
\* collection holds.
C16_NoFilterNoPosts ==
    listed.op = "search" /\ DOMAIN listed.args = {} =>
        listed.code = 200 /\ listed.posts = <<>>

\* a search without filters has been answered on a collection of four posts
C16_Witness ==
    /\ listed.op = "search"
    /\ DOMAIN listed.args = {}
    /\ Len(Collection) = 4

\* the characters of the model in the order of their code points
Alphabet ==
    <<" ", "-", "0", "1", "2", "3", "4", "5", "6", "7", "8", "9",
      "A", "B", "C", "a", "b", "c", "x">>

IndexOf(c) == CHOOSE i \in DOMAIN Alphabet : Alphabet[i] = c

\* a string with its capitals replaced by the small letters
Lowered(s) ==
    [i \in DOMAIN s |->
        IF s[i] \in {"A", "B", "C"}
        THEN CHOOSE d \in {"a", "b", "c"} : SameLetter(s[i], d)
        ELSE s[i]]

\* s comes before t in the order of strings
StrBefore(s, t) ==
    \/ Len(s) < Len(t) /\ s = SubSeq(t, 1, Len(s))
    \/ \E i \in 1..Len(s) :
          /\ i <= Len(t)
          /\ SubSeq(s, 1, i - 1) = SubSeq(t, 1, i - 1)
          /\ IndexOf(s[i]) < IndexOf(t[i])

\* where a post stands in the stored collection
PlaceOf(post) == CHOOSE i \in DOMAIN Collection : Collection[i] = post

\* the direction of a list request, asc when none is sent
DirectionOf(args) == IF "direction" \in DOMAIN args THEN args["direction"] ELSE "asc"

\* a list sorted by a text field, in a direction that exists, was asked for
TextSortAsked ==
    /\ listed.op = "list"
    /\ "sort" \in DOMAIN listed.args
    /\ listed.args["sort"] \in {"title", "content", "author"}
    /\ DirectionOf(listed.args) \in {"asc", "desc"}

\* C17: a list sorted by title, content or author is a permutation of the
\* collection in the order of the lowercased field, ascending for asc and
\* descending for desc, and posts with equal keys keep their stored order in
\* both directions.
C17_SortedStable ==
    TextSortAsked =>
        LET out   == listed.posts
            k(p)  == Lowered(p[listed.args["sort"]])
            asc   == DirectionOf(listed.args) = "asc"
        IN  /\ listed.code = 200
            /\ Len(out) = Len(Collection)
            /\ \A i \in DOMAIN Collection : \E j \in DOMAIN out : out[j] = Collection[i]
            /\ \A i, j \in DOMAIN out :
                  i < j =>
                      /\ asc => ~StrBefore(k(out[j]), k(out[i]))
                      /\ ~asc => ~StrBefore(k(out[i]), k(out[j]))
                      /\ k(out[i]) = k(out[j]) => PlaceOf(out[i]) < PlaceOf(out[j])

\* a list by title, descending, has moved the second post to the front and
\* kept the first before the third, whose titles differ in case only
C17_Witness ==
    /\ TextSortAsked
    /\ listed.args["sort"] = "title"
    /\ DirectionOf(listed.args) = "desc"
    /\ Len(listed.posts) = 3
    /\ listed.posts[1] = Collection[2]
    /\ listed.posts[2] = Collection[1]
    /\ listed.posts[3] = Collection[3]

\* C18: a list asked for in a direction other than asc and desc is refused
\* with a validation error and returns no posts, with a sort field that
\* exists and without a sort field.
C18_BadDirectionRefused ==
    /\ listed.op = "list"
    /\ DirectionOf(listed.args) \notin {"asc", "desc"}
    /\ "sort" \in DOMAIN listed.args => listed.args["sort"] \in Fields
    => listed.code = 400 /\ listed.posts = <<>>

\* what a request makes of a collection when it runs alone: a create appends
\* the new post, a delete takes the post out, an update replaces the fields
\* that its body names
Applied(req, posts) ==
    CASE req.op = "create" -> Append(posts, ExpectedPost(req.body, posts))
      [] req.op = "delete" -> SelectSeq(posts, LAMBDA post : post.id # req.post_id)
      [] req.op = "update" ->
            [i \in DOMAIN posts |->
                IF posts[i].id = req.post_id
                THEN [k \in DOMAIN posts[i] |->
                         IF k \in Keys(req.body) THEN req.body.data[k] ELSE posts[i][k]]
                ELSE posts[i]]

\* two requests, and no other, have saved and reported success, a first and
\* b second, and b had loaded before a saved
LostUpdateRun(a, b) ==
    /\ Savers = {a, b}
    /\ proc[a].code \in {200, 201} /\ proc[b].code \in {200, 201}
    /\ proc[a].rank = 1 /\ b \in proc[a].met
    /\ proc[b].rank = 2

\* C19: when two mutating requests both load before either saves, and both
\* report success, the file afterwards holds the later saver's change applied
\* to the collection both loaded, and nothing of the earlier saver's change.
C19_LostUpdate ==
    \A a \in Workers, b \in Workers :
        LostUpdateRun(a, b) =>
            /\ proc[a].posts = proc[b].posts
            /\ Collection = Applied(proc[b].req, proc[b].posts)

\* a change has been lost: the file is not what the two requests would have
\* left one after the other
C19_Witness ==
    \E a \in Workers, b \in Workers :
        /\ LostUpdateRun(a, b)
        /\ proc[a].posts # <<>>
        /\ Collection # Applied(proc[b].req, Applied(proc[a].req, proc[a].posts))
        /\ Collection # Applied(proc[a].req, Applied(proc[b].req, proc[a].posts))

\* C20: with every load and every save one step, the persisted collection
\* never holds two posts with the same id, however the requests interleave.
C20_UniqueIdsRaced == Cardinality(IdsOf(Collection)) = Len(Collection)

\* the creates have all loaded the same posts, and all have saved and answered
\* 201 with the same new id
C20_Witness ==
    /\ \A w \in Workers :
          /\ proc[w].pc = "done"
          /\ proc[w].req.op = "create"
          /\ proc[w].code = 201
          /\ proc[w].posts # <<>>
          /\ Len(Collection) = Len(proc[w].posts) + 1
    /\ \E w \in Workers : proc[w].met # {}

====
